---- MODULE Spec2Model ----
(***************************************************************************)
(* A model of SQLChat.py: the chat-input handler (question -> Gemini call  *)
(* -> SQL extraction -> read_sql_query -> generate_natural_response ->     *)
(* history append), read_sql_query's connection handling, and the         *)
(* formatter.                                                              *)
(*                                                                         *)
(* Python strings are modelled as sequences of lexemes (a lexeme is a      *)
(* TLA+ string: a fence, a keyword, a run of whitespace, a word, a phrase  *)
(* of one of the program's own messages).  str.upper / str.lower map each  *)
(* lexeme, 'in' is lexeme membership, startswith looks at the first        *)
(* lexeme, strip drops whitespace lexemes at both ends.  Python values     *)
(* that may be None, a str or a list are tagged records.                   *)
(***************************************************************************)
EXTENDS Integers, Sequences, FiniteSets, TLC

\* ------------------------------------------------------------------ bounds
MaxResp == 4     \* longest model response, in lexemes
MaxErr == 2      \* longest model-fault message, in lexemes
NumCalls == 2    \* concurrent read_sql_query calls of other interactions
MaxTail == 2     \* lexemes after SELECT in the queries the formatter is tried on

\* ---------------------------------------------------------- Python values
PyNone == [none |-> TRUE]
PyStr(s) == [str |-> s]
PyList(l) == [list |-> l]
IsNone(v) == DOMAIN v = {"none"}
IsStr(v) == DOMAIN v = {"str"}
IsList(v) == DOMAIN v = {"list"}

\* A cell of a result row: an INTEGER, a TEXT or a NULL column value.
IntCell(n) == [int |-> n]
TextCell(s) == [text |-> s]
NullCell == [null |-> TRUE]

\* ------------------------------------------------------------ str methods
WS == " "

\* str.upper(), lexeme by lexeme
UpperLex(t) ==
    CASE t = "select" -> "SELECT"
      [] t = "count(*)" -> "COUNT(*)"
      [] t = "<fence>sql" -> "<fence>SQL"
      [] t = "x" -> "X"
      [] t = "no valid sql" -> "NO VALID SQL"
      [] t = "no sql code block" -> "NO SQL CODE BLOCK"
      [] t = "api_key_invalid" -> "API_KEY_INVALID"
      [] t = "quota exceeded" -> "QUOTA EXCEEDED"
      [] OTHER -> t

\* str.lower(), lexeme by lexeme
LowerLex(t) ==
    CASE t = "SELECT" -> "select"
      [] t = "COUNT(*)" -> "count(*)"
      [] t = "<fence>SQL" -> "<fence>sql"
      [] t = "Error:" -> "error:"
      [] t = "Error in AI response:" -> "error in ai response:"
      [] t = "No valid SQL" -> "no valid sql"
      [] t = "No SQL code block" -> "no sql code block"
      [] t = "No response from Gemini" -> "no response from gemini"
      [] OTHER -> t

Upper(s) == [i \in 1..Len(s) |-> UpperLex(s[i])]
Lower(s) == [i \in 1..Len(s) |-> LowerLex(s[i])]

\* needle in s, for a one-lexeme needle
Contains(s, needle) == \E i \in 1..Len(s) : s[i] = needle

\* s.startswith(prefix), for a one-lexeme prefix
StartsWith(s, prefix) == Len(s) > 0 /\ s[1] = prefix

\* s.strip()
Strip(s) ==
    LET keep == {i \in 1..Len(s) : s[i] # WS}
    IN  IF keep = {} THEN <<>>
        ELSE LET lo == CHOOSE i \in keep : \A j \in keep : i <= j
                 hi == CHOOSE i \in keep : \A j \in keep : j <= i
             IN  SubSeq(s, lo, hi)

\* ----------------------------------------------------- the fence regex
\* The pattern  FENCE sql \s* (.*?) \s* FENCE  (FENCE: three backquotes, written
\* "<fence>" here) under re.DOTALL | re.IGNORECASE.  The lexeme
\* "<fence>sql" begins with "<fence>", so it can also close a fence.
IsFenceOpen(t) == LowerLex(t) = "<fence>sql"
IsFence(t) == t = "<fence>" \/ IsFenceOpen(t)

\* Whether the pattern matches with "<fence>sql" at lexeme i.
MatchesAt(text, i) ==
    /\ IsFenceOpen(text[i])
    /\ \E j \in (i + 1)..Len(text) : IsFence(text[j])

\* group(1) had the pattern been greedy, (.*) : it runs to the last fence.
GroupAtGreedy(text, i) ==
    LET n == Len(text)
        last == CHOOSE j \in (i + 1)..n :
                   IsFence(text[j]) /\ \A m \in (j + 1)..n : ~IsFence(text[m])
    IN  Strip(SubSeq(text, i + 1, last - 1))

\* group(1) of the match at i: \s* takes the whitespace after the tag,
\* (.*?) grows one lexeme at a time until \s* FENCE matches what follows.
GroupAt(text, i) ==
    LET n == Len(text)
        wsEnd == CHOOSE p \in (i + 1)..(n + 1) :
                    /\ \A m \in (i + 1)..(p - 1) : text[m] = WS
                    /\ (p <= n => text[p] # WS)
        tailOk(q) == \E j \in q..n :
                        /\ IsFence(text[j])
                        /\ \A m \in q..(j - 1) : text[m] = WS
        lens == {k \in 0..(n - wsEnd + 1) : tailOk(wsEnd + k)}
        k == CHOOSE a \in lens : \A b \in lens : a <= b
    IN  SubSeq(text, wsEnd, wsEnd + k - 1)

\* re.search: the leftmost position where the pattern matches; 0 is no match.
re_search(text) ==
    LET starts == {i \in 1..Len(text) : MatchesAt(text, i)}
    IN  IF starts = {} THEN 0
        ELSE CHOOSE i \in starts : \A j \in starts : i <= j

\* --------------------------------------------------- get_gemini_response
MsgInvalidSql == <<"No valid SQL", " ", "(empty or missing ", "SELECT", ") found in response.">>
MsgNoBlock == <<"No SQL code block", " ", "found in Gemini-s response, and raw text doesn-t appear to be SQL.">>
MsgNoResponse == <<"No response from Gemini", ".">>
MsgKeyInvalid == <<"Error:", " ", "Gemini API key is invalid.">>
MsgAiError(e) == <<"Error in AI response:", " ">> \o e

\* What model.generate_content does: it raises (str(e) = e), or returns a
\* response with no text, or returns text (possibly empty).
ModelRaised(e) == [raised |-> e]
ModelNoText == [notext |-> TRUE]
ModelText(t) == [text |-> t]

\* The try body once the response has text (lines 100-118).
extract_sql(text) ==
    LET at == re_search(text)
    IN  IF at # 0
        THEN LET sql_query == Strip(GroupAt(text, at))
             IN  IF sql_query # <<>> /\ Contains(Upper(sql_query), "SELECT")
                 THEN sql_query
                 ELSE MsgInvalidSql
        ELSE LET cleaned_response_text == Strip(text)
             IN  IF StartsWith(Upper(cleaned_response_text), "SELECT")
                 THEN cleaned_response_text
                 ELSE MsgNoBlock

get_gemini_response(outcome) ==
    IF DOMAIN outcome = {"raised"}
    THEN IF Contains(Upper(outcome.raised), "API_KEY_INVALID")
         THEN MsgKeyInvalid
         ELSE MsgAiError(outcome.raised)
    ELSE IF DOMAIN outcome = {"text"} /\ outcome.text # <<>>
         THEN extract_sql(outcome.text)
         ELSE MsgNoResponse

\* ------------------------------------------------------- the SQLite store
\* A lexeme no UTF-8 encoder accepts (a lone surrogate): cur.execute raises
\* UnicodeEncodeError on a statement that holds one.
Surrogate == "U+D800"

\* str(e) of the sqlite3.Error the store raises for a rejected statement.
StoreErrors ==
    { <<"near ", "x", ": syntax error">>,
      <<"no such table:", " ", "SQL_ERROR:", " ">> }
ConnectError == <<"unable to open database file">>
ClosedError == <<"Cannot operate on a closed database.">>

\* What cur.fetchall() can return.
RowSets ==
    { <<>>,
      << <<IntCell(4)>> >>,
      << <<TextCell("Ann"), NullCell>>, <<TextCell("Bob"), IntCell(12)>> >> }

\* isinstance(e, sqlite3.Error): what the except clause of line 57 catches
IsSqliteError(cls) == cls \in {"sqlite3.OperationalError", "sqlite3.ProgrammingError"}

Raised(cls, msg) == [cls |-> cls, msg |-> msg]
NoExc == [cls |-> "", msg |-> <<>>]

\* A connect that hands every caller one cached, process-wide connection.
sqlite3_connect_cached(last) == 1

\* sqlite3.connect returns a connection of its own: a handle nobody holds yet
sqlite3_connect(last) == last + 1

\* f"SQL_ERROR: {e}"
SqlErrorString(msg) == <<"SQL_ERROR:", " ">> \o msg

Callers == 0..NumCalls          \* 0 is the chat handler's own call
Handles == 1..(NumCalls + 1)

\* ------------------------------------------------ generate_natural_response
SentenceExecError == "<error while executing the SQL query: >"
SentenceUnexpectedNone == "<query error (results unexpectedly empty).>"
SentenceNoResults == "<no results for the query.>"
SentenceCountPre == "<there are >"
SentenceCountPost == "< results matching the query.>"
SentenceCountUnknown == "<cannot determine the number of results.>"
SentenceFormatError == "<error while formatting the reply.>"
SentenceCouldNotProcess == "<sorry, could not process your request. reason: >"

\* s.replace(old, ""), for a two-lexeme old: every occurrence, left to right
RECURSIVE RemoveAll(_, _)
RemoveAll(s, old) ==
    IF Len(s) = 0 THEN <<>>
    ELSE IF Len(s) >= 2 /\ s[1] = old[1] /\ s[2] = old[2]
         THEN RemoveAll(SubSeq(s, 3, Len(s)), old)
         ELSE <<s[1]>> \o RemoveAll(Tail(s), old)

DigitLex(d) ==
    CASE d = 0 -> "0" [] d = 1 -> "1" [] d = 2 -> "2" [] d = 3 -> "3"
      [] d = 4 -> "4" [] d = 5 -> "5" [] d = 6 -> "6" [] d = 7 -> "7"
      [] d = 8 -> "8" [] OTHER -> "9"

RECURSIVE IntStr(_)
IntStr(n) == IF n < 10 THEN <<DigitLex(n)>> ELSE IntStr(n \div 10) \o <<DigitLex(n % 10)>>

\* str(item) of a cell
Str(cell) ==
    IF DOMAIN cell = {"int"} THEN IntStr(cell.int)
    ELSE IF DOMAIN cell = {"text"} THEN <<cell.text>>
    ELSE <<"None">>

\* sep.join(parts)
RECURSIVE Join(_, _)
Join(sep, parts) ==
    IF Len(parts) = 0 THEN <<>>
    ELSE IF Len(parts) = 1 THEN parts[1]
    ELSE parts[1] \o <<sep>> \o Join(sep, Tail(parts))

\* bool(results) for a str or a list
Truthy(v) == (IsStr(v) /\ v.str # <<>>) \/ (IsList(v) /\ v.list # <<>>)

\* The formatter with the COUNT(*) rule tried before the empty-result rule.
generate_natural_response_count_first(results, sql_query) ==
    IF IsStr(results) /\ StartsWith(results.str, "SQL_ERROR:")
    THEN <<SentenceExecError>> \o RemoveAll(results.str, <<"SQL_ERROR:", " ">>)
    ELSE IF Contains(Upper(sql_query), "COUNT(*)")
    THEN IF IsList(results) /\ Len(results.list) > 0 /\ Len(results.list[1]) > 0
         THEN <<SentenceCountPre>> \o Str(results.list[1][1]) \o <<SentenceCountPost>>
         ELSE <<SentenceCountUnknown>>
    ELSE IF ~Truthy(results) THEN <<SentenceNoResults>>
    ELSE Join("\n", [r \in 1..Len(results.list) |->
             Join(" | ", [c \in 1..Len(results.list[r]) |-> Str(results.list[r][c])])])

\* lines 62-86.  The except of lines 75-77 is the SentenceCountUnknown arm (a
\* first row without a first cell); the except of lines 84-86 has no arm: str()
\* of an INTEGER, TEXT or NULL cell does not raise.
generate_natural_response(results, sql_query) ==
    IF IsStr(results) /\ StartsWith(results.str, "SQL_ERROR:")
    THEN <<SentenceExecError>> \o RemoveAll(results.str, <<"SQL_ERROR:", " ">>)
    ELSE IF IsNone(results) THEN <<SentenceUnexpectedNone>>
    ELSE IF ~Truthy(results) THEN <<SentenceNoResults>>
    ELSE IF Contains(Upper(sql_query), "COUNT(*)")
    THEN IF IsList(results) /\ Len(results.list[1]) > 0
         THEN <<SentenceCountPre>> \o Str(results.list[1][1]) \o <<SentenceCountPost>>
         ELSE IF IsStr(results)
              THEN <<SentenceCountPre, results.str[1], SentenceCountPost>>
              ELSE <<SentenceCountUnknown>>
    ELSE IF IsList(results)
         THEN Join("\n", [r \in 1..Len(results.list) |->
                  Join(" | ", [c \in 1..Len(results.list[r]) |-> Str(results.list[r][c])])])
         ELSE Join("\n", [r \in 1..Len(results.str) |-> <<results.str[r]>>])

\* ------------------------------------------------------------------ state
VARIABLES
    pc,                          \* where the chat-input handler stands
    messages,                    \* st.session_state.messages
    model_outcome,               \* what model.generate_content did
    generated_sql,               \* handler local, line 311
    sql_to_display_in_chat,      \* handler local, line 314 / 321
    results,                     \* handler local, line 325
    assistant_response_content,  \* handler local, line 313 / 329 / 337
    exec_log,                    \* every sql handed to read_sql_query, in order
    cpc,                         \* per read_sql_query call: its position
    csql,                        \* per call: the sql argument
    conn,                        \* per call: the local conn (0: unbound)
    exc,                         \* per call: the exception in flight
    cresults,                    \* per call: the local results
    cret,                        \* per call: the value returned
    openConns,                   \* connections open in the process
    lastHandle,                  \* the newest connection handle
    users                        \* per handle: the calls that operated on it

handlerVars == <<pc, messages, model_outcome, generated_sql, sql_to_display_in_chat,
                 results, assistant_response_content, exec_log>>
callVars == <<cpc, csql, conn, exc, cresults, cret, openConns, lastHandle, users>>
vars == <<pc, messages, model_outcome, generated_sql, sql_to_display_in_chat,
          results, assistant_response_content, exec_log,
          cpc, csql, conn, exc, cresults, cret, openConns, lastHandle, users>>

SeqsUpTo(S, n) == UNION {[1..k -> S] : k \in 0..n}

\* The greeting the history starts with (line 286)
Greeting == [role |-> "assistant", content |-> <<"<greeting>">>, sql_query |-> PyNone]

Questions == {<<"<question>">>}

\* Lexemes of a model response, and of a model fault's message
RespLex == {"<fence>sql", "<fence>", WS, "select", "x", "no valid sql", Surrogate}
FaultLex == {"quota exceeded", "api_key_invalid", "select", "no sql code block"}

ModelOutcomes ==
    {ModelNoText}
    \cup {ModelText(t) : t \in SeqsUpTo(RespLex, MaxResp)}
    \cup {ModelRaised(e) : e \in SeqsUpTo(FaultLex, MaxErr)}

InitCalls ==
    /\ cpc = [p \in Callers |-> "idle"]
    /\ csql = [p \in Callers |-> <<>>]
    /\ conn = [p \in Callers |-> 0]
    /\ exc = [p \in Callers |-> NoExc]
    /\ cresults = [p \in Callers |-> <<>>]
    /\ cret = [p \in Callers |-> PyNone]
    /\ openConns = {}
    /\ lastHandle = 0
    /\ users = [h \in Handles |-> {}]

Init ==
    /\ pc = "idle"
    /\ messages = <<Greeting>>
    /\ model_outcome = ModelNoText
    /\ generated_sql = <<>>
    /\ sql_to_display_in_chat = PyNone
    /\ results = PyNone
    /\ assistant_response_content = <<>>
    /\ exec_log = <<>>
    /\ InitCalls

\* ----------------------------------------------------------- read_sql_query
\* Another interaction calls read_sql_query(sql, DATABASE_PATH).
Call(p, sql) ==
    /\ p # 0
    /\ cpc[p] = "idle"
    /\ cpc' = [cpc EXCEPT ![p] = "connect"]
    /\ csql' = [csql EXCEPT ![p] = sql]
    /\ UNCHANGED <<conn, exc, cresults, cret, openConns, lastHandle, users>>
    /\ UNCHANGED handlerVars

\* line 48: conn = sqlite3.connect(db_path)
Connect(p) ==
    /\ cpc[p] = "connect"
    /\ \/ LET h == sqlite3_connect(lastHandle)
          IN  /\ conn' = [conn EXCEPT ![p] = h]
              /\ openConns' = openConns \cup {h}
              /\ lastHandle' = IF h > lastHandle THEN h ELSE lastHandle
              /\ users' = [users EXCEPT ![h] = @ \cup {p}]
              /\ cpc' = [cpc EXCEPT ![p] = "cursor"]
              /\ exc' = exc
       \/ /\ exc' = [exc EXCEPT ![p] = Raised("sqlite3.OperationalError", ConnectError)]
          /\ cpc' = [cpc EXCEPT ![p] = "except"]
          /\ UNCHANGED <<conn, openConns, lastHandle, users>>
    /\ UNCHANGED <<csql, cresults, cret>>
    /\ UNCHANGED handlerVars

\* line 49: cur = conn.cursor()
Cursor(p) ==
    /\ cpc[p] = "cursor"
    /\ users' = [users EXCEPT ![conn[p]] = @ \cup {p}]
    /\ IF conn[p] \in openConns
       THEN /\ cpc' = [cpc EXCEPT ![p] = "execute"]
            /\ exc' = exc
       ELSE /\ exc' = [exc EXCEPT ![p] = Raised("sqlite3.ProgrammingError", ClosedError)]
            /\ cpc' = [cpc EXCEPT ![p] = "except"]
    /\ UNCHANGED <<csql, conn, cresults, cret, openConns, lastHandle>>
    /\ UNCHANGED handlerVars

\* line 50: cur.execute(sql)
Execute(p) ==
    /\ cpc[p] = "execute"
    /\ users' = [users EXCEPT ![conn[p]] = @ \cup {p}]
    /\ IF conn[p] \notin openConns
       THEN /\ exc' = [exc EXCEPT ![p] = Raised("sqlite3.ProgrammingError", ClosedError)]
            /\ cpc' = [cpc EXCEPT ![p] = "except"]
       ELSE IF Contains(csql[p], Surrogate)
       THEN /\ exc' = [exc EXCEPT ![p] = Raised("UnicodeEncodeError", <<"surrogates not allowed">>)]
            /\ cpc' = [cpc EXCEPT ![p] = "except"]
       ELSE \/ /\ cpc' = [cpc EXCEPT ![p] = "fetchall"]
               /\ exc' = exc
            \/ \E msg \in StoreErrors :
                  /\ exc' = [exc EXCEPT ![p] = Raised("sqlite3.OperationalError", msg)]
                  /\ cpc' = [cpc EXCEPT ![p] = "except"]
    /\ UNCHANGED <<csql, conn, cresults, cret, openConns, lastHandle>>
    /\ UNCHANGED handlerVars

\* line 51: results = cur.fetchall()
Fetchall(p) ==
    /\ cpc[p] = "fetchall"
    /\ users' = [users EXCEPT ![conn[p]] = @ \cup {p}]
    /\ IF conn[p] \notin openConns
       THEN /\ exc' = [exc EXCEPT ![p] = Raised("sqlite3.ProgrammingError", ClosedError)]
            /\ cpc' = [cpc EXCEPT ![p] = "except"]
            /\ cresults' = cresults
       ELSE \/ \E rows \in RowSets :
                  /\ cresults' = [cresults EXCEPT ![p] = rows]
                  /\ cpc' = [cpc EXCEPT ![p] = "close"]
                  /\ exc' = exc
            \/ \E msg \in StoreErrors :
                  /\ exc' = [exc EXCEPT ![p] = Raised("sqlite3.OperationalError", msg)]
                  /\ cpc' = [cpc EXCEPT ![p] = "except"]
                  /\ cresults' = cresults
    /\ UNCHANGED <<csql, conn, cret, openConns, lastHandle>>
    /\ UNCHANGED handlerVars

\* lines 54-56: conn.close(); return results
Close(p) ==
    /\ cpc[p] = "close"
    /\ users' = [users EXCEPT ![conn[p]] = @ \cup {p}]
    /\ openConns' = openConns \ {conn[p]}
    /\ cret' = [cret EXCEPT ![p] = PyList(cresults[p])]
    /\ cpc' = [cpc EXCEPT ![p] = "returned"]
    /\ UNCHANGED <<csql, conn, exc, cresults, lastHandle>>
    /\ UNCHANGED handlerVars

\* lines 57-59: except sqlite3.Error as e: return f"SQL_ERROR: {e}".  Any
\* other exception leaves read_sql_query.
Except(p) ==
    /\ cpc[p] = "except"
    /\ IF IsSqliteError(exc[p].cls)
       THEN /\ cret' = [cret EXCEPT ![p] = PyStr(SqlErrorString(exc[p].msg))]
            /\ cpc' = [cpc EXCEPT ![p] = "returned"]
       ELSE /\ cret' = cret
            /\ cpc' = [cpc EXCEPT ![p] = "raised"]
    /\ UNCHANGED <<csql, conn, exc, cresults, openConns, lastHandle, users>>
    /\ UNCHANGED handlerVars

\* The runtime may finalize a connection object no running call refers to;
\* when it does so is the interpreter's choice, the code never asks for it.
Finalize(h) ==
    /\ h \in openConns
    /\ \A p \in Callers : conn[p] = h => cpc[p] \in {"returned", "raised"}
    /\ openConns' = openConns \ {h}
    /\ UNCHANGED <<cpc, csql, conn, exc, cresults, cret, lastHandle, users>>
    /\ UNCHANGED handlerVars

\* --------------------------------------------------- the chat-input handler
\* lines 316-319
PassesGuard(g) ==
    /\ g # <<>>
    /\ ~StartsWith(Lower(g), "error:")
    /\ ~Contains(Lower(g), "no valid sql")
    /\ ~Contains(Lower(g), "no sql code block")
    /\ ~Contains(Lower(g), "no response from gemini")

\* lines 298-308: the question is appended to the history
Submit ==
    /\ pc = "idle"
    /\ \E user_question \in Questions :
          messages' = Append(messages, [role |-> "user", content |-> user_question,
                                        sql_query |-> PyNone])
    /\ pc' = "model"
    /\ UNCHANGED <<model_outcome, generated_sql, sql_to_display_in_chat, results,
                   assistant_response_content, exec_log>>
    /\ UNCHANGED callVars

\* lines 311-314: generated_sql = get_gemini_response(user_question, prompt)
ModelCall ==
    /\ pc = "model"
    /\ \E outcome \in ModelOutcomes :
          /\ model_outcome' = outcome
          /\ generated_sql' = get_gemini_response(outcome)
    /\ assistant_response_content' = <<>>
    /\ sql_to_display_in_chat' = PyNone
    /\ pc' = "guard"
    /\ UNCHANGED <<messages, results, exec_log>>
    /\ UNCHANGED callVars

\* lines 316-325 (the call of read_sql_query) or 336-338 (the error reply)
Guard ==
    /\ pc = "guard"
    /\ IF PassesGuard(generated_sql)
       THEN /\ sql_to_display_in_chat' = PyStr(generated_sql)
            /\ exec_log' = Append(exec_log, generated_sql)
            /\ cpc' = [cpc EXCEPT ![0] = "connect"]
            /\ csql' = [csql EXCEPT ![0] = generated_sql]
            /\ pc' = "executing"
            /\ UNCHANGED assistant_response_content
       ELSE /\ assistant_response_content' = <<SentenceCouldNotProcess>> \o generated_sql
            /\ pc' = "append"
            /\ UNCHANGED <<sql_to_display_in_chat, exec_log, cpc, csql>>
    /\ UNCHANGED <<messages, model_outcome, generated_sql, results>>
    /\ UNCHANGED <<conn, exc, cresults, cret, openConns, lastHandle, users>>

\* lines 325-335: read_sql_query returned; the reply is formatted and shown
Format ==
    /\ pc = "executing"
    /\ cpc[0] = "returned"
    /\ results' = cret[0]
    /\ assistant_response_content' =
          generate_natural_response(cret[0], sql_to_display_in_chat.str)
    /\ pc' = "append"
    /\ UNCHANGED <<messages, model_outcome, generated_sql, sql_to_display_in_chat, exec_log>>
    /\ UNCHANGED callVars

\* read_sql_query raised: nothing in the handler catches it, the script run
\* ends at line 325 and lines 341-345 are not reached.
Abort ==
    /\ pc = "executing"
    /\ cpc[0] = "raised"
    /\ pc' = "aborted"
    /\ UNCHANGED <<messages, model_outcome, generated_sql, sql_to_display_in_chat,
                   results, assistant_response_content, exec_log>>
    /\ UNCHANGED callVars

\* lines 341-345
AppendAnswer ==
    /\ pc = "append"
    /\ messages' = Append(messages, [role |-> "assistant",
                                     content |-> assistant_response_content,
                                     sql_query |-> sql_to_display_in_chat])
    /\ pc' = "done"
    /\ UNCHANGED <<model_outcome, generated_sql, sql_to_display_in_chat, results,
                   assistant_response_content, exec_log>>
    /\ UNCHANGED callVars

\* ---------------------------------------------------------- specifications
\* One run of the chat-input handler.
Next ==
    \/ Submit
    \/ ModelCall
    \/ Guard
    \/ Connect(0)
    \/ Cursor(0)
    \/ Execute(0)
    \/ Fetchall(0)
    \/ Close(0)
    \/ Except(0)
    \/ Format
    \/ Abort
    \/ AppendAnswer
    \/ \E h \in Handles : Finalize(h)

Spec == Init /\ [][Next]_vars

\* read_sql_query called by NumCalls interactions at once.
CallQueries == { <<"select", WS, "x">>, <<"select", WS, Surrogate>> }

NextExec ==
    \/ \E p \in Callers \ {0} : \E sql \in CallQueries : Call(p, sql)
    \/ \E p \in Callers \ {0} : Connect(p)
    \/ \E p \in Callers \ {0} : Cursor(p)
    \/ \E p \in Callers \ {0} : Execute(p)
    \/ \E p \in Callers \ {0} : Fetchall(p)
    \/ \E p \in Callers \ {0} : Close(p)
    \/ \E p \in Callers \ {0} : Except(p)
    \/ \E h \in Handles : Finalize(h)

SpecExec == Init /\ [][NextExec]_vars

\* The handler from the guard on, for an extracted query of any wording: the
\* model answered with a bare SELECT statement, which line 117 returns as is.
QueryLex == {"COUNT(*)", "count(*)", "x", Surrogate}
FormatQueries == {<<"SELECT">> \o t : t \in SeqsUpTo(QueryLex, MaxTail)}

InitFormat ==
    /\ pc = "guard"
    /\ messages = <<Greeting, [role |-> "user", content |-> <<"<question>">>,
                               sql_query |-> PyNone]>>
    /\ model_outcome \in {ModelText(q) : q \in FormatQueries}
    /\ generated_sql = get_gemini_response(model_outcome)
    /\ sql_to_display_in_chat = PyNone
    /\ results = PyNone
    /\ assistant_response_content = <<>>
    /\ exec_log = <<>>
    /\ InitCalls

NextFormat ==
    \/ Guard
    \/ Connect(0)
    \/ Cursor(0)
    \/ Execute(0)
    \/ Fetchall(0)
    \/ Close(0)
    \/ Except(0)
    \/ Format
    \/ Abort
    \/ AppendAnswer
    \/ \E h \in Handles : Finalize(h)

SpecFormat == InitFormat /\ [][NextFormat]_vars

\* ------------------------------------------------------------------ claims
\* What the specification says extraction yields, stated from the response
\* alone: the first tagged fence decides, the SELECT-prefix fallback applies
\* only without one.
HasFence(text) ==
    \E i \in 1..Len(text) : \E j \in (i + 1)..Len(text) :
        IsFenceOpen(text[i]) /\ IsFence(text[j])

FirstFenceInner(text) ==
    LET open == CHOOSE i \in 1..Len(text) :
                   /\ IsFenceOpen(text[i])
                   /\ \A m \in 1..(i - 1) : ~IsFenceOpen(text[m])
        shut == CHOOSE j \in (open + 1)..Len(text) :
                   /\ IsFence(text[j])
                   /\ \A m \in (open + 1)..(j - 1) : ~IsFence(text[m])
    IN  Strip(SubSeq(text, open + 1, shut - 1))

MentionsSelect(q) == \E i \in 1..Len(q) : q[i] \in {"select", "SELECT"}

Expected(text) ==
    IF HasFence(text)
    THEN IF FirstFenceInner(text) # <<>> /\ MentionsSelect(FirstFenceInner(text))
         THEN [query |-> FirstFenceInner(text)]
         ELSE [failure |-> "InvalidOrEmptySql"]
    ELSE IF Strip(text) # <<>> /\ Strip(text)[1] \in {"select", "SELECT"}
         THEN [query |-> Strip(text)]
         ELSE [failure |-> "NoSqlBlockFound"]

HasText == DOMAIN model_outcome = {"text"} /\ model_outcome.text # <<>>
ExtractionSucceeds == HasText /\ DOMAIN Expected(model_outcome.text) = {"query"}
ModelCalled == pc \notin {"idle", "model"}
LastMessage == messages[Len(messages)]

\* C1: whenever the model call faults or returns no text, or extraction
\* fails, read_sql_query is never invoked, and the answer appended has no
\* query and is the could-not-process sentence naming the failure.
C1_FailureShortCircuits ==
    (ModelCalled /\ ~ExtractionSucceeds) =>
        /\ exec_log = <<>>
        /\ pc = "done" =>
              /\ LastMessage.sql_query = PyNone
              /\ LastMessage.content = <<SentenceCouldNotProcess>> \o generated_sql

\* C2: whenever extraction succeeds, the executor is invoked exactly once on
\* the extracted text and the answer record's query is that text, whatever
\* the execution outcome and whatever other words the text contains.
C2_SuccessExecutesExtracted ==
    (pc = "done" /\ ExtractionSucceeds) =>
        /\ exec_log = <<Expected(model_outcome.text).query>>
        /\ LastMessage.sql_query = PyStr(Expected(model_outcome.text).query)

\* C3: every string passed to the executor or stored as an answer record's
\* query is non-empty and contains the keyword SELECT (case-insensitive).
C3_QueriesAreValidated ==
    /\ \A i \in 1..Len(exec_log) : exec_log[i] # <<>> /\ MentionsSelect(exec_log[i])
    /\ \A i \in 1..Len(messages) :
          IsStr(messages[i].sql_query) =>
              /\ messages[i].sql_query.str # <<>>
              /\ MentionsSelect(messages[i].sql_query.str)

\* C4: every connection read_sql_query opens is closed when the call is
\* over, on every exit path; once all calls are over none is open.
C4_ReleasedOnEveryExit ==
    /\ \A p \in Callers :
          (cpc[p] \in {"returned", "raised"} /\ conn[p] # 0) => conn[p] \notin openConns
    /\ (\A p \in Callers : cpc[p] \in {"idle", "returned", "raised"}) => openConns = {}

\* C5: every failure raised while connecting or executing comes back as the
\* "SQL_ERROR: <message>" string carrying the error's description; nothing
\* is raised out of read_sql_query.
C5_FaultsBecomeErrorStrings ==
    \A p \in Callers :
        /\ cpc[p] # "raised"
        /\ (cpc[p] = "returned" /\ exc[p] # NoExc) =>
              cret[p] = PyStr(<<"SQL_ERROR:", " ">> \o exc[p].msg)

\* C6: a submitted question ends with exactly one assistant record appended
\* to the history after it, whichever step failed; no failure ends the
\* interaction before the append.
C6_OneAnswerPerQuestion ==
    /\ pc # "aborted"
    /\ pc = "done" =>
          /\ Len(messages) = 3
          /\ messages[2].role = "user"
          /\ messages[3].role = "assistant"
    /\ pc \in {"model", "guard", "executing", "append"} => Len(messages) = 2

Formatted == pc \in {"append", "done"} /\ cpc[0] = "returned"
QueryHasCount ==
    \E i \in 1..Len(generated_sql) : generated_sql[i] \in {"COUNT(*)", "count(*)"}
IsSentence(lex) ==
    lex \in {SentenceExecError, SentenceUnexpectedNone, SentenceNoResults, SentenceCountPre,
             SentenceCountPost, SentenceCountUnknown, SentenceFormatError}

\* C8: an empty row sequence is rendered as the fixed no-results sentence
\* whatever the query says, and the rules apply in the order execution
\* error, empty, COUNT(*), tabular: an error or an empty result is never
\* rendered by the COUNT(*) or the tabular rule.
C8_RuleOrder ==
    Formatted =>
        IF exc[0] # NoExc
        THEN assistant_response_content[1] = SentenceExecError
        ELSE IF cresults[0] = <<>>
        THEN assistant_response_content = <<SentenceNoResults>>
        ELSE IF QueryHasCount
        THEN assistant_response_content[1] = SentenceCountPre
        ELSE \A i \in 1..Len(assistant_response_content) :
                ~IsSentence(assistant_response_content[i])

\* C8's case: a COUNT(*) query whose execution returned no row.
C8_Witness ==
    /\ Formatted
    /\ QueryHasCount
    /\ exc[0] = NoExc
    /\ cresults[0] = <<>>
    /\ assistant_response_content = <<SentenceNoResults>>

\* C9: extraction is first-match-wins: with a tagged fence the first
\* fence's trimmed inner text alone decides (returned if non-empty and
\* containing SELECT, else the invalid-or-empty failure); the SELECT-prefix
\* fallback is used only without a fence; neither gives the no-block
\* failure and an empty or absent response the no-response failure.
C9_FirstMatchWins ==
    ModelCalled =>
        IF DOMAIN model_outcome = {"raised"} THEN TRUE
        ELSE IF ~HasText THEN generated_sql = MsgNoResponse
        ELSE IF DOMAIN Expected(model_outcome.text) = {"query"}
        THEN generated_sql = Expected(model_outcome.text).query
        ELSE IF Expected(model_outcome.text).failure = "InvalidOrEmptySql"
        THEN generated_sql = MsgInvalidSql
        ELSE generated_sql = MsgNoBlock

\* C9's case: the response starts with SELECT and also holds a tagged fence
\* with no SELECT inside; the fence decides and the fallback is not used.
C9_Witness ==
    /\ ModelCalled
    /\ HasText
    /\ HasFence(model_outcome.text)
    /\ Strip(model_outcome.text)[1] = "select"
    /\ ~MentionsSelect(FirstFenceInner(model_outcome.text))
    /\ generated_sql = MsgInvalidSql

\* C10: when execution fails with store message msg, the reply is the
\* error sentence followed by msg in full and unaltered, for every msg.
C10_ErrorMessageEmbedded ==
    (Formatted /\ exc[0] # NoExc) =>
        assistant_response_content = <<SentenceExecError>> \o exc[0].msg

====
